---- MODULE Spec2Model ----
(***************************************************************************)
(* Joint Decorrelation (mne_addon/joint_decorreltaion.py).                 *)
(*                                                                         *)
(* The numerical content of the matrices is abstracted: a matrix is its    *)
(* shape plus, where it matters, its provenance (which trials make up its  *)
(* row blocks, whether they were detrended, which fit call and how many    *)
(* eigenbasis triples produced it).  Control flow, argument defaulting,    *)
(* slicing, the order of the assignments to self.unmixing / self.mixing    *)
(* and the places where an exception leaves fit are those of the source.   *)
(***************************************************************************)
EXTENDS Integers, Sequences, FiniteSets, TLC

VARIABLES kind, unmixing, mixing, epochs, nfit, fitted, last, boot

vars == <<kind, unmixing, mixing, epochs, nfit, fitted, last, boot>>

----------------------------------------------------------------------------
(* Bounds of the model *)

MaxChan == 2
MaxTrials == 2
MaxTimes == 1
MaxKeep == 2
MaxFits == 2
MaxBoot == 3

----------------------------------------------------------------------------
(* Values *)

\* Python None for a condition label (labels are strings)
None == "None"
\* Python None for keep1 / keep2 / keep3 (the keeps are positive integers)
KeepNone == 0
\* Python None for self.unmixing / self.mixing, and "no value" in records
NoMatrix == [none |-> TRUE]

Labels == {"A", "B", "C"}

Min(a, b) == IF a < b THEN a ELSE b

Range(s) == {s[i] : i \in DOMAIN s}

\* n copies of v: the row blocks of np.tile(np.identity(n_times), n) * v
Tile(v, n) == [i \in 1..n |-> v]

Indices(n) == [i \in 1..n |-> i]

\* the orders in which a dict can hold the keys S
Orders(S) == {s \in [1..Cardinality(S) -> S] : Range(s) = S}

\* The trial container handed to the model: the per-trial condition labels
\* (epochs.events[:, 2] through epochs.event_id), the keys of epochs.event_id
\* in dict order, the shape of epochs._data and the rank of the flattened data.
EpochsSet ==
    UNION {
      { [events |-> ev, event_id |-> ids, nchan |-> c, n_times |-> t, rank |-> r] :
            ids \in Orders(Range(ev)),
            r \in 1..Min(c, Len(ev) * t) } :
        ev \in UNION {[1..n -> Labels] : n \in 1..MaxTrials},
        c \in 1..MaxChan,
        t \in 1..MaxTimes }

KeepArgs == {KeepNone} \cup (1..MaxKeep)
ConditionArgs == {None, "A", "B"}

----------------------------------------------------------------------------
(* epochs[condition]: the trials of one condition, in input order *)

GetItem(ep, condition) ==
    IF condition = None
      THEN [err |-> "IndexError", idx |-> <<>>]
    ELSE IF condition \notin Range(ep.event_id)
      THEN [err |-> "KeyError", idx |-> <<>>]
    ELSE [err |-> "none",
          idx |-> SelectSeq(Indices(Len(ep.events)),
                            LAMBDA i : ep.events[i] = condition)]

----------------------------------------------------------------------------
(* _transform(X, L, keep1, keep2)                                          *)
(* X: [blocks, det, cols, n_times, rank], a (Len(blocks)*n_times) x cols   *)
(* matrix; L: the signs of the identity blocks of the bias filter.         *)
(* nonfinite: the whitened signal is not finite (a retained eigenvalue of  *)
(* C0 is not positive), which np.linalg.eig(C1) rejects.                   *)

\* D[idx], P[:, idx] with idx = argsort(...)[::-1][0:keep]: a slice never
\* takes more than there is
Retained(keep, available) == Min(keep, available)

_transform(X, L, keep1, keep2, nonfinite) ==
    LET k1 == Retained(keep1, X.cols)
        k2 == Retained(keep2, k1)
    IN  IF Len(L) * X.n_times # Len(X.blocks) * X.n_times
          THEN [err |-> "ValueError_matmul"]          \* Zbar = L @ Z
        ELSE IF k1 > X.rank /\ nonfinite
          THEN [err |-> "LinAlgError"]                \* np.linalg.eig(C1)
        ELSE [err |-> "none",
              P |-> [rows |-> X.cols, cols |-> k1],
              N |-> [rows |-> k1, cols |-> k1],
              Q |-> [rows |-> k1, cols |-> k2]]

----------------------------------------------------------------------------
(* JointDecorrelation.fit                                                  *)

\* what a fit call has computed so far, for the record of the call
NoTrace ==
    [keep1 |-> KeepNone, keep2 |-> KeepNone, keep3 |-> KeepNone,
     condition1 |-> None, condition2 |-> None,
     selected |-> NoMatrix, X |-> NoMatrix, L |-> <<>>, Y |-> NoMatrix, L2 |-> <<>>]

\* Stage1Assign without its second assignment: self.mixing keeps its old value
Stage1AssignUnmixingOnly(self, t, id) ==
    [unmixing |-> [fit |-> id, stages |-> 1, rows |-> t.P.rows, cols |-> t.Q.cols],
     mixing   |-> self.mixing]

\* self.unmixing = P @ N @ Q ; self.mixing = Q.T @ np.diag(1/np.diag(N)) @ P.T
Stage1Assign(self, t, id) ==
    [unmixing |-> [fit |-> id, stages |-> 1, rows |-> t.P.rows, cols |-> t.Q.cols],
     mixing   |-> [fit |-> id, stages |-> 1, rows |-> t.Q.cols, cols |-> t.P.rows]]

\* self.unmixing = self.unmixing @ P @ N @ Q
\* self.mixing = Q.T @ np.diag(1/np.diag(N)) @ P.T @ self.mixing
Stage2Assign(self, t, id) ==
    [unmixing |-> [fit |-> id, stages |-> self.unmixing.stages + 1,
                   rows |-> self.unmixing.rows, cols |-> t.Q.cols],
     mixing   |-> [fit |-> id, stages |-> self.mixing.stages + 1,
                   rows |-> t.Q.cols, cols |-> self.mixing.cols]]

\* an exception leaves fit: the attributes are whatever has been assigned so far
Raise(e, self, trace) ==
    [err |-> e, unmixing |-> self.unmixing, mixing |-> self.mixing, trace |-> trace]

\* the second stage of "difference"
fit_difference(self, ep, X, keep2, keep3, trace, id) ==
    LET A == GetItem(ep, trace.condition1)
        B == GetItem(ep, trace.condition2)
    IN  IF A.err # "none" THEN Raise(A.err, self, trace)
        ELSE IF B.err # "none" THEN Raise(B.err, self, trace)
        ELSE
          LET L2 == Tile(1, Len(A.idx)) \o Tile(-1, Len(B.idx))
              \* Y = X @ self.unmixing: whitened, so of full column rank
              Y  == [blocks |-> X.blocks, det |-> X.det, cols |-> self.unmixing.cols,
                     n_times |-> X.n_times, rank |-> self.unmixing.cols]
              tr == [trace EXCEPT !.Y = Y, !.L2 = L2]
              t  == _transform(Y, L2, keep2, keep3, FALSE)
          IN  IF t.err # "none" THEN Raise(t.err, self, tr)
              ELSE LET m == Stage2Assign(self, t, id)
                   IN  [err |-> "none", unmixing |-> m.unmixing,
                        mixing |-> m.mixing, trace |-> tr]

\* self: [kind, unmixing, mixing]; a: the arguments of the call; id: the number
\* of the call; nonfinite: see _transform
fit(self, ep, a, id, nonfinite) ==
    LET keep1 == IF a.keep1 = KeepNone THEN ep.nchan ELSE a.keep1
        keep2 == IF a.keep2 = KeepNone THEN keep1 ELSE a.keep2
        keep3 == IF a.keep3 = KeepNone /\ self.kind = "difference" THEN keep2 ELSE a.keep3
        infer == a.condition1 = None /\ a.condition2 = None /\ self.kind = "difference"
        tr0   == [NoTrace EXCEPT !.keep1 = keep1, !.keep2 = keep2, !.keep3 = keep3,
                                 !.condition1 = a.condition1, !.condition2 = a.condition2]
    IN  IF infer /\ Len(ep.event_id) # 2
          THEN Raise("ValueError_conditions", self, tr0)
        ELSE
          LET condition1 == IF infer THEN ep.event_id[1] ELSE a.condition1
              condition2 == IF infer THEN ep.event_id[2] ELSE a.condition2
              tr1 == [tr0 EXCEPT !.condition1 = condition1, !.condition2 = condition2]
              n_epochs == Len(ep.events)
              A == IF self.kind = "difference" THEN GetItem(ep, condition1)
                   ELSE [err |-> "none", idx |-> Indices(n_epochs)]
          IN  IF A.err # "none" THEN Raise(A.err, self, tr1)
              ELSE
                LET \* X = epochs._data, or the concatenation of line 41, then detrended
                    selected == [blocks |-> IF self.kind = "evoked" THEN Indices(n_epochs)
                                            ELSE A.idx \o A.idx,
                                 det |-> a.detrending]
                    \* X = np.transpose(epochs._data, (1, 0, 2)), reshaped
                    X == [blocks |-> Indices(n_epochs), det |-> FALSE, cols |-> ep.nchan,
                          n_times |-> ep.n_times, rank |-> ep.rank]
                    L == Tile(1, n_epochs)
                    tr2 == [tr1 EXCEPT !.selected = selected, !.X = X, !.L = L]
                    t == _transform(X, L, keep1, keep2, nonfinite)
                IN  IF t.err # "none" THEN Raise(t.err, self, tr2)
                    ELSE
                      LET m  == Stage1Assign(self, t, id)
                          s1 == [kind |-> self.kind, unmixing |-> m.unmixing,
                                 mixing |-> m.mixing]
                      IN  IF self.kind = "difference"
                            THEN fit_difference(s1, ep, X, keep2, keep3, tr2, id)
                            ELSE [err |-> "none", unmixing |-> m.unmixing,
                                  mixing |-> m.mixing, trace |-> tr2]

----------------------------------------------------------------------------
(* get_components / reproject_components                                   *)

\* X @ M for X of shape (rows x cols): None or a mismatch of the inner
\* dimensions makes numpy raise
Matmul(cols, M) ==
    IF M = NoMatrix THEN [err |-> "TypeError", cols |-> 0]
    ELSE IF M.rows # cols THEN [err |-> "ValueError_matmul", cols |-> 0]
    ELSE [err |-> "none", cols |-> M.cols]

\* the shape of the EpochsArray returned, <<>> when the call raises
get_components(self, ep) ==
    LET Y == Matmul(ep.nchan, self.unmixing)
    IN  IF Y.err # "none" THEN [err |-> Y.err, shape |-> <<>>]
        ELSE [err |-> "none", shape |-> <<Len(ep.events), Y.cols, ep.n_times>>]

reproject_components(self, ep) ==
    LET Y == Matmul(ep.nchan, self.unmixing)
        X == IF Y.err = "none" THEN Matmul(Y.cols, self.mixing) ELSE Y
    IN  IF X.err # "none" THEN [err |-> X.err, shape |-> <<>>]
        ELSE [err |-> "none", shape |-> <<Len(ep.events), X.cols, ep.n_times>>]

----------------------------------------------------------------------------
(* The model object and the calls made on it                               *)

Self == [kind |-> kind, unmixing |-> unmixing, mixing |-> mixing]

NoCall == [op |-> "none", err |-> "none", args |-> NoMatrix,
           pre |-> [unmixing |-> NoMatrix, mixing |-> NoMatrix],
           trace |-> NoTrace, shape |-> <<>>]

NoBoot == [called |-> FALSE]

FitArgs(Keeps, Conditions, Detrendings) ==
    [keep1 : Keeps, keep2 : Keeps, keep3 : Keeps,
     condition1 : Conditions, condition2 : Conditions, detrending : Detrendings]

Init ==
    /\ kind \in {"evoked", "difference"}
    /\ unmixing = NoMatrix
    /\ mixing = NoMatrix
    /\ epochs \in EpochsSet
    /\ nfit = 0
    /\ fitted = NoMatrix
    /\ last = [NoCall EXCEPT !.op = "__init__"]
    /\ boot = NoBoot

\* jd = JointDecorrelation(k): an invalid kind raises and no new object exists
New(k) ==
    /\ IF k \in {"evoked", "difference"}
         THEN /\ kind' = k
              /\ unmixing' = NoMatrix
              /\ mixing' = NoMatrix
              /\ fitted' = NoMatrix
              /\ last' = [NoCall EXCEPT !.op = "__init__"]
         ELSE /\ UNCHANGED <<kind, unmixing, mixing, fitted>>
              /\ last' = [NoCall EXCEPT !.op = "__init__", !.err = "ValueError_kind",
                                        !.pre = [unmixing |-> unmixing, mixing |-> mixing]]
    /\ UNCHANGED <<epochs, nfit, boot>>

Construct == \E k \in {"evoked", "difference", "invalid"} : New(k)

\* jd.fit(epochs, ...) with the arguments a
FitWith(a) ==
    /\ \E nonfinite \in (IF Retained(IF a.keep1 = KeepNone THEN epochs.nchan ELSE a.keep1,
                                     epochs.nchan) > epochs.rank
                           THEN BOOLEAN ELSE {FALSE}) :
         LET r == fit(Self, epochs, a, nfit + 1, nonfinite)
         IN  /\ unmixing' = r.unmixing
             /\ mixing' = r.mixing
             /\ fitted' = IF r.err = "none"
                            THEN [fit |-> nfit + 1, keep1 |-> r.trace.keep1,
                                  keep2 |-> r.trace.keep2, keep3 |-> r.trace.keep3]
                            ELSE fitted
             /\ last' = [op |-> "fit", err |-> r.err, args |-> a,
                         pre |-> [unmixing |-> unmixing, mixing |-> mixing],
                         trace |-> r.trace, shape |-> <<>>]
    /\ nfit' = nfit + 1
    /\ UNCHANGED <<kind, epochs, boot>>

\* any arguments, on a model that has not been fitted before
Fit ==
    /\ nfit = 0
    /\ \E a \in FitArgs(KeepArgs, ConditionArgs, BOOLEAN) : FitWith(a)

\* call after call, the keeps and detrending left to their defaults
Refit ==
    /\ nfit < MaxFits
    /\ \E a \in FitArgs({KeepNone}, ConditionArgs, {TRUE}) : FitWith(a)

GetComponents ==
    /\ LET r == get_components(Self, epochs)
       IN  last' = [NoCall EXCEPT !.op = "get_components", !.err = r.err,
                                  !.pre = [unmixing |-> unmixing, mixing |-> mixing],
                                  !.shape = r.shape]
    /\ UNCHANGED <<kind, unmixing, mixing, epochs, nfit, fitted, boot>>

ReprojectComponents ==
    /\ LET r == reproject_components(Self, epochs)
       IN  last' = [NoCall EXCEPT !.op = "reproject_components", !.err = r.err,
                                  !.pre = [unmixing |-> unmixing, mixing |-> mixing],
                                  !.shape = r.shape]
    /\ UNCHANGED <<kind, unmixing, mixing, epochs, nfit, fitted, boot>>

\* sequences of constructions, fits and projections on one data set
Next == Construct \/ Refit \/ GetComponents \/ ReprojectComponents

Spec == Init /\ [][Next]_vars

\* one fit with any arguments, then projections
NextArgs == Fit \/ GetComponents \/ ReprojectComponents

SpecArgs == Init /\ [][NextArgs]_vars

----------------------------------------------------------------------------
(* bootstrap_components(epochs, n_bootstrap, keep1, keep2, ci)             *)

\* the keeps written in the call jd.fit(permutated_epochs, keep1=40, keep2=15)
FitKeep1 == 40
FitKeep2 == 15

\* ci in thousandths (950 is 0.95); the percentiles in tenths of a percent
Percentiles(ci) == <<(1000 - ci) \div 2, 1000 - ((1000 - ci) \div 2)>>

\* the loop has not started: ci is the caller's number, nothing is written
BootstrapStart(ci) ==
    [i |-> 0, ci |-> [tuple |-> FALSE, v |-> <<ci>>], err |-> "none",
     fits |-> <<>>, percentiles |-> 0, out |-> <<>>]

\* one pass of the loop body.  draw: the rank of the resampled data and
\* whether its whitening is not finite
BootstrapIteration(s, ep, keep1, keep2, draw) ==
    LET permutated_epochs == [ep EXCEPT !.rank = draw.rank]
        jd == [kind |-> "evoked", unmixing |-> NoMatrix, mixing |-> NoMatrix]
        a  == [keep1 |-> FitKeep1, keep2 |-> FitKeep2, keep3 |-> KeepNone,
               condition1 |-> None, condition2 |-> None, detrending |-> TRUE]
        f  == fit(jd, permutated_epochs, a, s.i + 1, draw.nonfinite)
        Y  == get_components([jd EXCEPT !.unmixing = f.unmixing, !.mixing = f.mixing],
                             permutated_epochs)
    IN  IF f.err # "none" THEN [s EXCEPT !.err = f.err]
        ELSE IF Y.err # "none" THEN [s EXCEPT !.err = Y.err]
        ELSE
          LET done == [keep1 |-> f.trace.keep1, keep2 |-> f.trace.keep2,
                       components |-> Y.shape[2]]
              s1   == [s EXCEPT !.fits = Append(@, done)]
          IN  \* data[i, :, :] = Y.average().data broadcasts only one row or keep2
              IF Y.shape[2] # keep2 /\ Y.shape[2] # 1
                THEN [s1 EXCEPT !.err = "ValueError_broadcast"]
              \* ci = (((1 - ci) / 2) * 100, ...): ci is a tuple from the second pass on
              ELSE IF s.ci.tuple
                THEN [s1 EXCEPT !.err = "TypeError"]
              ELSE [s1 EXCEPT !.i = @ + 1,
                              !.ci = [tuple |-> TRUE, v |-> Percentiles(s.ci.v[1])],
                              !.percentiles = @ + 1,
                              !.out = << <<keep2, ep.n_times>>, <<keep2, ep.n_times>> >>]

RECURSIVE BootstrapLoop(_, _, _, _, _)
BootstrapLoop(s, ep, keep1, keep2, draws) ==
    IF s.err # "none" \/ s.i = Len(draws) THEN s
    ELSE BootstrapLoop(BootstrapIteration(s, ep, keep1, keep2, draws[s.i + 1]),
                       ep, keep1, keep2, draws)

\* the result of the call: ci_low, ci_up are unbound when the loop never ran
bootstrap_components(ep, keep1, keep2, ci, draws) ==
    LET s == BootstrapLoop(BootstrapStart(ci), ep, keep1, keep2, draws)
    IN  IF s.err = "none" /\ Len(draws) = 0
          THEN [s EXCEPT !.err = "UnboundLocalError"]
          ELSE IF s.err # "none" THEN [s EXCEPT !.out = <<>>] ELSE s

Draws(ep) ==
    {[rank |-> r, nonfinite |-> b] :
        r \in 1..ep.rank,
        b \in BOOLEAN}

Bootstrap ==
    /\ \E n \in 1..MaxBoot, keep1 \in 1..MaxKeep, keep2 \in 1..MaxKeep, ci \in {900, 950} :
         \E draws \in [1..n -> Draws(epochs)] :
            /\ \A i \in 1..n :
                 draws[i].nonfinite => Retained(FitKeep1, epochs.nchan) > draws[i].rank
            /\ boot' = [called |-> TRUE, n_bootstrap |-> n, keep1 |-> keep1,
                        keep2 |-> keep2, ci |-> ci,
                        result |-> bootstrap_components(epochs, keep1, keep2, ci, draws)]
    /\ UNCHANGED <<kind, unmixing, mixing, epochs, nfit, fitted, last>>

\* calls of bootstrap_components on one data set
NextBoot == Bootstrap

SpecBoot == Init /\ [][NextBoot]_vars

----------------------------------------------------------------------------
(* Properties                                                              *)

Projections == {"get_components", "reproject_components"}

\* C1: a fit call that raises on an already fitted model leaves unmixing and
\* mixing exactly as they were before the call.
FailedFitKeepsFittedState ==
    (last.op = "fit" /\ last.err # "none" /\ fitted # NoMatrix)
        => (unmixing = last.pre.unmixing /\ mixing = last.pre.mixing)

\* C2: on a model on which no fit call has succeeded, get_components and
\* reproject_components raise and return no tensor.
ProjectionNeedsSuccessfulFit ==
    (last.op \in Projections /\ fitted = NoMatrix)
        => (last.err # "none" /\ last.shape = <<>>)

\* C3: in "difference" mode fit raises the ambiguous-condition error whenever
\* the two labels are not both supplied and the input does not expose exactly
\* two labels; in "evoked" mode that error is never raised.
AmbiguousConditionsRaise ==
    /\ (last.op = "fit" /\ kind = "difference"
          /\ ~(last.args.condition1 # None /\ last.args.condition2 # None)
          /\ Len(epochs.event_id) # 2)
         => last.err = "ValueError_conditions"
    /\ (last.op = "fit" /\ kind = "evoked") => last.err # "ValueError_conditions"

\* C4: a fit call with keep1 greater than the channel count raises instead of
\* retaining fewer components than requested.
KeepBeyondChannelsRaises ==
    (last.op = "fit" /\ last.args.keep1 > epochs.nchan) => last.err # "none"

\* C5: on a model fitted with keeps that are each at most the channel count,
\* get_components returns (n_trials, keep2, n_samples) in "evoked" mode and
\* (n_trials, keep3, n_samples) in "difference" mode.
ComponentCountIsLastKeep ==
    (last.op = "get_components" /\ last.err = "none" /\ fitted # NoMatrix
       /\ fitted.keep1 <= epochs.nchan /\ fitted.keep2 <= epochs.nchan
       /\ fitted.keep3 <= epochs.nchan)
        => last.shape = <<Len(epochs.events),
                          IF kind = "evoked" THEN fitted.keep2 ELSE fitted.keep3,
                          epochs.n_times>>

\* C7: unmixing and mixing are both undefined, or both defined and composed
\* in the same fit call from the same number of eigenbasis triples, with
\* shapes that are each other's transpose.
UnmixingMixingConsistent ==
    \/ unmixing = NoMatrix /\ mixing = NoMatrix
    \/ /\ unmixing # NoMatrix
       /\ mixing # NoMatrix
       /\ unmixing.fit = mixing.fit
       /\ unmixing.stages = mixing.stages
       /\ unmixing.rows = mixing.cols
       /\ unmixing.cols = mixing.rows

\* C7 witness: a fit call on a model holding a two-stage fit has raised in
\* its second stage, after its first stage replaced both matrices.
StageTwoFailureAfterFullFit ==
    /\ last.op = "fit"
    /\ last.err # "none"
    /\ last.pre.unmixing # NoMatrix
    /\ last.pre.unmixing.stages = 2
    /\ unmixing # NoMatrix
    /\ unmixing.fit = nfit
    /\ unmixing.stages = 1

\* C8: the matrix handed to the eigensolver holds detrended data exactly when
\* fit is called with detrending enabled.
DetrendDecidesEigensolverInput ==
    (last.op = "fit" /\ last.trace.X # NoMatrix)
        => last.trace.X.det = last.args.detrending

\* C9: in "difference" mode the matrix given to stage 2 holds the trials of
\* condition A followed by those of condition B, the signed bias filter has
\* one block per trial block, +1 exactly on the blocks of A and -1 exactly on
\* the blocks of B.
SignedFilterMatchesTrials ==
    (last.op = "fit" /\ kind = "difference" /\ last.trace.Y # NoMatrix
       /\ last.trace.condition1 # last.trace.condition2)
        => LET Y  == last.trace.Y
               L2 == last.trace.L2
           IN  /\ Len(L2) = Len(Y.blocks)
               /\ \A p \in 1..Len(Y.blocks) :
                    /\ L2[p] = 1 <=> epochs.events[Y.blocks[p]] = last.trace.condition1
                    /\ L2[p] = -1 <=> epochs.events[Y.blocks[p]] = last.trace.condition2

\* C6: every iteration of the bootstrap fits with the caller's keep1 and
\* keep2 and projects to keep2 components, and the two arrays returned have
\* shape (keep2, samples).
BootstrapFitsWithCallerKeeps ==
    boot.called
        => /\ \A i \in DOMAIN boot.result.fits :
                /\ boot.result.fits[i].keep1 = boot.keep1
                /\ boot.result.fits[i].keep2 = boot.keep2
                /\ boot.result.fits[i].components = boot.keep2
           /\ boot.result.err = "none"
                => boot.result.out = << <<boot.keep2, epochs.n_times>>,
                                        <<boot.keep2, epochs.n_times>> >>

\* C10: on data on which every fit and every write of a waveform succeeds,
\* the bootstrap runs n_bootstrap iterations without error, computes the
\* percentiles once, from the caller's confidence level, and returns.
BootstrapRunsAllResamples ==
    (boot.called /\ boot.result.err \notin {"LinAlgError", "ValueError_broadcast"})
        => /\ boot.result.err = "none"
           /\ boot.result.i = boot.n_bootstrap
           /\ boot.result.percentiles = 1
           /\ boot.result.ci.v = Percentiles(boot.ci)

====
